---- MODULE Spec2Model ----
(***************************************************************************)
(* The school-image backend of main.py: the three handlers that touch the  *)
(* document store (school_images, add_school_image, test_database), the    *)
(* module-level import they depend on, and the "schoolimage" collection.   *)
(* The store helpers of the database module (get_documents,                *)
(* create_document, list_collection_names) are not part of main.py; they   *)
(* are modelled from the written specification of the store shim.          *)
(***************************************************************************)
EXTENDS Integers, Sequences, FiniteSets, TLC

VARIABLES pc, db, environ, schoolimage, last, prev

vars == <<pc, db, environ, schoolimage, last, prev>>

(* ------------------------------ bounds -------------------------------- *)

\* most documents the collection holds
MaxRecords == 2
\* largest explicit ?limit= a client sends (besides the default)
MaxLimit == 3
\* how many collections beyond the shown ones the store may have
MaxExtraCollections == 1

(* ------------------------- program constants -------------------------- *)

DefaultLimit == 12
CollectionsShown == 10
ErrorShown == 50

(* ------------------------------ values -------------------------------- *)

None == "None"
NoModule == "NoModule"
Handle == "Handle"

Min(a, b) == IF a < b THEN a ELSE b

\* Python's s[:n] for n >= 0
Take(s, n) == SubSeq(s, 1, Min(n, Len(s)))

\* the text of an exception, a sequence of characters
ShortError == <<"b", "o", "o", "m">>
LongError == [i \in 1..(ErrorShown + 1) |-> "x"]
StoreErrors == {ShortError, LongError}

UrlA == [scheme |-> "https", host |-> "example.com", path |-> "/a.jpg"]
UrlB == [scheme |-> "https", host |-> "example.com", path |-> "/b.jpg"]
NotAUrl == [scheme |-> "", host |-> "", path |-> "not-a-url"]
FtpUrl == [scheme |-> "ftp", host |-> "example.com", path |-> "/a.jpg"]

\* the JSON bodies clients post; a key left out is a key not in the record
RequestBodies ==
    { [url |-> UrlA, title |-> "Gym", tags |-> <<"gym">>],
      [url |-> UrlA, title |-> "Gym", tags |-> <<"gym">>, approved |-> FALSE],
      [url |-> UrlB],
      [url |-> UrlB, approved |-> TRUE],
      [url |-> NotAUrl, title |-> "Gym"],
      [url |-> FtpUrl] }

Limits == (-1..MaxLimit) \cup {DefaultLimit}

CollectionCounts == {0, 1, CollectionsShown, CollectionsShown + MaxExtraCollections}

(* ------------------------ the store shim ------------------------------ *)

Matches(d, filter) == \A k \in DOMAIN filter : d[k] = filter[k]

RECURSIVE SelectSeq2(_, _)
SelectSeq2(s, filter) ==
    IF s = <<>> THEN <<>>
    ELSE IF Matches(Head(s), filter)
         THEN <<Head(s)>> \o SelectSeq2(Tail(s), filter)
         ELSE SelectSeq2(Tail(s), filter)

\* query documents matching a filter, capped at limit, in store order; the
\* written contract does not say what a negative limit does, so any prefix
\* of the matching documents is possible then
get_documents(collection, filter, limit) ==
    LET m == SelectSeq2(collection, filter) IN
    IF limit >= 0 THEN {Take(m, limit)}
    ELSE {Take(m, n) : n \in 0..Len(m)}

\* insert one document, return its generated identifier
create_document(collection, data) ==
    LET new_id == Len(collection) + 1 IN
    [id |-> new_id,
     collection |-> Append(collection, [data EXCEPT !._id = new_id])]

list_collection_names(n) == [i \in 1..n |-> i]

(* --------------------------- SchoolImageIn ---------------------------- *)

HttpUrl(u) == u.scheme \in {"http", "https"} /\ u.host # ""

ValidatesAnything(body) == TRUE

\* the request body passes the SchoolImageIn schema
Validates(body) == "url" \in DOMAIN body /\ HttpUrl(body.url)

Field(body, k, default) == IF k \in DOMAIN body THEN body[k] ELSE default

model_dump_unapproved(payload) ==
    [_id |-> 0,
     url |-> payload.url,
     title |-> Field(payload, "title", None),
     tags |-> Field(payload, "tags", <<>>),
     approved |-> Field(payload, "approved", FALSE)]

model_dump_no_tags(payload) ==
    [_id |-> 0,
     url |-> payload.url,
     title |-> Field(payload, "title", None),
     tags |-> <<>>,
     approved |-> Field(payload, "approved", TRUE)]

\* the validated payload as a plain mapping, defaults filled in (_id is the
\* slot the store fills)
model_dump(payload) ==
    [_id |-> 0,
     url |-> payload.url,
     title |-> Field(payload, "title", None),
     tags |-> Field(payload, "tags", <<>>),
     approved |-> Field(payload, "approved", TRUE)]

(* ---------------------------- school_images --------------------------- *)

NoFilter == [k \in {} |-> TRUE]

ApprovedFilter == [approved |-> TRUE]

Project(d) == [url |-> d.url, title |-> d.title, tags |-> d.tags]

Projection(docs) == [i \in 1..Len(docs) |-> Project(docs[i])]

placeholders ==
    << [url |-> [scheme |-> "https", host |-> "images.unsplash.com",
                 path |-> "/photo-1460518451285-97b6aa326961?q=80&w=1600&auto=format&fit=crop"],
        title |-> "Campus lawn (placeholder)",
        tags |-> <<"campus", "placeholder">>],
       [url |-> [scheme |-> "https", host |-> "images.unsplash.com",
                 path |-> "/photo-1523580846011-d3a5bc25702b?q=80&w=1600&auto=format&fit=crop"],
        title |-> "Courtyard (placeholder)",
        tags |-> <<"courtyard", "placeholder">>],
       [url |-> [scheme |-> "https", host |-> "images.unsplash.com",
                 path |-> "/photo-1562774053-701939374585?q=80&w=1600&auto=format&fit=crop"],
        title |-> "Hallway (placeholder)",
        tags |-> <<"hallway", "placeholder">>] >>

FallbackNever(images) == images

Fallback(images) == IF images = <<>> THEN placeholders ELSE images

\* the response of a listing whose query returned docs (<<>> when no query ran)
list_ok(limit, docs, calls) ==
    [op |-> "list", limit |-> limit, status |-> 200,
     images |-> Fallback(Projection(docs)), docs |-> docs,
     raised |-> <<>>, storeOps |-> calls]

list_except_fallback(limit, e) ==
    [op |-> "list", limit |-> limit, status |-> 200,
     images |-> placeholders, docs |-> <<>>,
     raised |-> e, storeOps |-> <<"get_documents">>]

\* except Exception as e: raise HTTPException(status_code=500, detail=str(e))
list_except(limit, e) ==
    [op |-> "list", limit |-> limit, status |-> 500, detail |-> e,
     raised |-> e, storeOps |-> <<"get_documents">>]

Remember(r) ==
    [op |-> r.op, status |-> r.status,
     created |-> IF r.op = "add" /\ r.status = 200
                    /\ "approved" \notin DOMAIN r.payload
                 THEN r.id ELSE 0]

school_images ==
    /\ pc = "serving"
    /\ \E limit \in Limits :
         IF db # None
         THEN \/ \E docs \in get_documents(schoolimage, ApprovedFilter, limit) :
                    last' = list_ok(limit, docs, <<"get_documents">>)
              \/ \E e \in StoreErrors : last' = list_except(limit, e)
         ELSE last' = list_ok(limit, <<>>, <<>>)
    /\ prev' = Remember(last)
    /\ UNCHANGED <<pc, db, environ, schoolimage>>

(* -------------------------- add_school_image -------------------------- *)

NeverAbsent == FALSE

\* if db is None
StoreAbsent == db = None

add_invalid(body) ==
    [op |-> "add", payload |-> body, status |-> 422, detail |-> <<"url">>,
     raised |-> <<>>, storeOps |-> <<>>]

add_unavailable(body) ==
    [op |-> "add", payload |-> body, status |-> 503,
     detail |-> <<"Database not available">>,
     raised |-> <<>>, storeOps |-> <<>>]

add_ok(body, new_id) ==
    [op |-> "add", payload |-> body, status |-> 200, id |-> new_id,
     raised |-> <<>>, storeOps |-> <<"create_document">>]

add_except(body, e) ==
    [op |-> "add", payload |-> body, status |-> 500, detail |-> e,
     raised |-> e, storeOps |-> <<"create_document">>]

add_school_image ==
    /\ pc = "serving"
    /\ \E body \in RequestBodies :
         IF ~Validates(body)
         THEN last' = add_invalid(body) /\ UNCHANGED schoolimage
         ELSE IF StoreAbsent
         THEN last' = add_unavailable(body) /\ UNCHANGED schoolimage
         ELSE \/ /\ Len(schoolimage) < MaxRecords
                 /\ LET r == create_document(schoolimage, model_dump(body)) IN
                      /\ schoolimage' = r.collection
                      /\ last' = add_ok(body, r.id)
              \/ \E e \in StoreErrors :
                    last' = add_except(body, e) /\ UNCHANGED schoolimage
    /\ prev' = Remember(last)
    /\ UNCHANGED <<pc, db, environ>>

(* ---------------------------- test_database --------------------------- *)

\* what _db.name is for a connected handle
DbName == "school"

response0 ==
    [backend |-> "Running",
     database |-> [status |-> "Not Available", detail |-> <<>>],
     database_url |-> None,
     database_name |-> None,
     connection_status |-> "Not Connected",
     collections |-> <<>>]

\* the branch taken when _db is not None, up to the probe
connected(r) ==
    [r EXCEPT !.database = [status |-> "Available", detail |-> <<>>],
              !.database_url = "Configured",
              !.database_name = DbName,
              !.connection_status = "Connected"]

\* collections = _db.list_collection_names() returned normally
probe_ok(r, collections) ==
    [r EXCEPT !.collections = Take(collections, CollectionsShown),
              !.database = [status |-> "Connected & Working", detail |-> <<>>]]

\* except Exception as e, around the probe
probe_except(r, e) ==
    [r EXCEPT !.database =
        [status |-> "Connected but Error", detail |-> Take(e, ErrorShown)]]

env_report_skipped(r, env) == r

\* the environment-variable check that ends the handler
env_report(r, env) ==
    [r EXCEPT !.database_url = IF env.DATABASE_URL THEN "Set" ELSE "Not Set",
              !.database_name = IF env.DATABASE_NAME THEN "Set" ELSE "Not Set"]

\* the body of the diagnostic response; probe is what the collection listing
\* did: [ok |-> TRUE, n |-> number of collections] or [ok |-> FALSE, e |-> text].
\* Inside the outer try only the import can raise (the probe has its own
\* handler), so the outer "except Exception" branch has no case here.
test_database_body(dbv, env, probe) ==
    LET tried ==
          IF dbv = NoModule
          THEN [response0 EXCEPT !.database =
                   [status |-> "Database module not found", detail |-> <<>>]]
          ELSE IF dbv # None
          THEN IF probe.ok
               THEN probe_ok(connected(response0), list_collection_names(probe.n))
               ELSE probe_except(connected(response0), probe.e)
          ELSE [response0 EXCEPT !.database =
                   [status |-> "Available but not initialized", detail |-> <<>>]]
    IN env_report(tried, env)

ProbeOutcomes ==
    IF db = Handle
    THEN {[ok |-> TRUE, n |-> n] : n \in CollectionCounts}
           \cup {[ok |-> FALSE, e |-> e] : e \in StoreErrors}
    ELSE {[ok |-> TRUE, n |-> 0]}

test_database ==
    /\ pc = "serving"
    /\ \E probe \in ProbeOutcomes :
         last' = [op |-> "test", status |-> 200,
                  body |-> test_database_body(db, environ, probe),
                  probe |-> IF db = Handle THEN probe ELSE None,
                  raised |-> IF db = Handle /\ ~probe.ok THEN probe.e ELSE <<>>,
                  storeOps |-> IF db = Handle THEN <<"list_collection_names">>
                               ELSE <<>>]
    /\ prev' = Remember(last)
    /\ UNCHANGED <<pc, db, environ, schoolimage>>

(* ------------------------------ startup ------------------------------- *)

\* from database import db, create_document, get_documents
Startup ==
    /\ pc = "start"
    /\ pc' = IF db = NoModule THEN "crashed" ELSE "serving"
    /\ UNCHANGED <<db, environ, schoolimage, last, prev>>

Init ==
    /\ pc = "start"
    /\ db \in {NoModule, None, Handle}
    /\ environ \in [DATABASE_URL : BOOLEAN, DATABASE_NAME : BOOLEAN]
    /\ schoolimage = <<>>
    /\ last = [op |-> "none", status |-> 0, raised |-> <<>>, storeOps |-> <<>>]
    /\ prev = [op |-> "none", status |-> 0, created |-> 0]

Next == Startup \/ school_images \/ add_school_image \/ test_database

Spec == Init /\ [][Next]_vars

(* ------------------------------- claims ------------------------------- *)

Approved == SelectSeq2(schoolimage, [approved |-> TRUE])

Listed == last.op = "list" /\ last.status = 200

\* C1: for every limit >= 0, a successful listing on a connected store that
\* holds approved records returns at most limit entries.
C1_AtMostLimit ==
    (Listed /\ db = Handle /\ Approved # <<>> /\ last.limit >= 0)
        => Len(last.images) <= last.limit

\* C2 (as stated): a successful listing that directly follows a successful
\* creation with approved omitted contains an entry with the new record's
\* url, title and tags, whatever the listing's limit.
C2_RoundTrip ==
    (Listed /\ prev.created # 0)
        => \E i \in 1..Len(last.images) :
              /\ last.images[i].url = schoolimage[prev.created].url
              /\ last.images[i].title = schoolimage[prev.created].title
              /\ last.images[i].tags = schoolimage[prev.created].tags

\* C2 (amended): a successful listing that directly follows a successful
\* creation with approved omitted, and whose limit is at least the number of
\* approved records in the store, contains the entry made from the new record,
\* with its url, title and tags.
C2_RoundTripWithinLimit ==
    (Listed /\ prev.created # 0 /\ last.limit >= Len(Approved))
        => \E i \in 1..Len(last.docs) :
              /\ last.docs[i]._id = prev.created
              /\ last.images[i].url = schoolimage[prev.created].url
              /\ last.images[i].title = schoolimage[prev.created].title
              /\ last.images[i].tags = schoolimage[prev.created].tags

C2_Witness ==
    /\ Listed /\ prev.created = 2
    /\ last.limit = 2 /\ Len(last.images) = 2
    /\ last.images[1] # last.images[2]

ThreePlaceholders(images) ==
    /\ Len(images) = 3
    /\ images[1].title = "Campus lawn (placeholder)"
    /\ images[2].title = "Courtyard (placeholder)"
    /\ images[3].title = "Hallway (placeholder)"
    /\ \A i \in 1..3 : /\ images[i].url.host = "images.unsplash.com"
                       /\ images[i].tags[2] = "placeholder"

\* C3: with no store handle every listing, whatever its limit, succeeds
\* without a store call and returns the 3 placeholders in their order; with
\* a store handle a listing whose approved-filtered query returned no rows
\* returns the same 3 placeholders.
C3_Placeholders ==
    last.op = "list" =>
        /\ db = None => /\ last.status = 200
                        /\ last.storeOps = <<>>
                        /\ ThreePlaceholders(last.images)
        /\ (db = Handle /\ last.status = 200 /\ last.docs = <<>>)
               => ThreePlaceholders(last.images)

C3_Witness ==
    /\ Listed /\ db = Handle /\ last.limit = DefaultLimit
    /\ schoolimage # <<>> /\ last.docs = <<>>
    /\ ThreePlaceholders(last.images)

\* C4: every entry of a listing response is a placeholder or is made from a
\* stored record whose approved field is true; none is made from a record
\* whose approved field is false.
C4_OnlyApproved ==
    Listed =>
        \/ last.docs = <<>> /\ ThreePlaceholders(last.images)
        \/ /\ Len(last.images) = Len(last.docs)
           /\ \A i \in 1..Len(last.docs) :
                 LET d == schoolimage[last.docs[i]._id] IN
                 /\ d.approved = TRUE
                 /\ last.images[i] = [url |-> d.url, title |-> d.title,
                                      tags |-> d.tags]

C4_Witness ==
    /\ Listed /\ last.limit = DefaultLimit /\ Len(last.docs) = 1
    /\ Len(schoolimage) = 2
    /\ \E j \in 1..2 : ~schoolimage[j].approved

IllFormed(u) == u.scheme \notin {"http", "https"} \/ u.host = ""

\* C5: a creation request whose url is not a well-formed absolute URL gets
\* the validation error 422, makes no store call and leaves the records as
\* they were, with or without a store.
C5_InvalidUrlRejected ==
    [][(last'.op = "add" /\ IllFormed(last'.payload.url))
          => /\ last'.status = 422
             /\ last'.storeOps = <<>>
             /\ schoolimage' = schoolimage]_vars

C5_Witness ==
    /\ last.op = "add" /\ last.status = 422 /\ IllFormed(last.payload.url)
    /\ db = Handle /\ Len(schoolimage) = 1
    /\ prev.op = "add" /\ prev.status = 200

\* C6: with no store handle every valid creation request gets 503, makes no
\* store call and returns no identifier, while a listing in the same state
\* succeeds with the placeholders.
C6_Unavailable ==
    db = None =>
        /\ schoolimage = <<>>
        /\ (last.op = "add" /\ ~IllFormed(last.payload.url))
              => /\ last.status = 503
                 /\ last.storeOps = <<>>
                 /\ "id" \notin DOMAIN last
        /\ last.op = "list" => last.status = 200 /\ ThreePlaceholders(last.images)

C6_Witness ==
    /\ db = None /\ last.op = "add" /\ last.status = 503
    /\ "approved" \notin DOMAIN last.payload
    /\ prev.op = "list" /\ prev.status = 200

\* C7: an exception the store raises during a listing or an insert becomes a
\* 500 response whose detail is the whole exception text; a listing with no
\* store handle succeeds with the placeholders, a listing whose store raised
\* never does.
C7_StoreErrorsAre500 ==
    last.op \in {"list", "add"} =>
        /\ last.raised # <<>> => /\ last.status = 500
                                 /\ last.detail = last.raised
                                 /\ "images" \notin DOMAIN last
                                 /\ "id" \notin DOMAIN last
        /\ (last.op = "list" /\ db = None)
              => last.status = 200 /\ last.raised = <<>>
        /\ last.status = 500 => last.raised # <<>> /\ db = Handle

C7_Witness ==
    /\ last.op = "list" /\ last.status = 500 /\ Len(last.detail) > ErrorShown
    /\ prev.op = "add" /\ prev.status = 500

IsPrefix(s, t) == Len(s) <= Len(t) /\ SubSeq(t, 1, Len(s)) = s

\* C8: the records change only in a step that is a successful creation, which
\* appends exactly one record holding the request's four fields (defaults
\* filled in) and returns that record's identifier; no step updates or
\* deletes a record, and every other request leaves the records as they were.
C8_OnlyCreationWrites ==
    [][/\ IsPrefix(schoolimage, schoolimage')
       /\ schoolimage' # schoolimage
             => /\ last'.op = "add" /\ last'.status = 200
                /\ Len(schoolimage') = Len(schoolimage) + 1
                /\ LET d == schoolimage'[Len(schoolimage')]
                       p == last'.payload IN
                   /\ d._id = last'.id
                   /\ \A j \in 1..Len(schoolimage) : schoolimage[j]._id # d._id
                   /\ d.url = p.url
                   /\ d.title = (IF "title" \in DOMAIN p THEN p.title ELSE None)
                   /\ d.tags = (IF "tags" \in DOMAIN p THEN p.tags ELSE <<>>)
                   /\ d.approved = (IF "approved" \in DOMAIN p THEN p.approved
                                    ELSE TRUE)
       /\ (last' # last /\ last'.op = "add" /\ last'.status = 200)
             => schoolimage' # schoolimage]_vars

C8_Witness ==
    /\ last.op = "add" /\ last.status = 200 /\ last.id = 2
    /\ "tags" \in DOMAIN last.payload
    /\ schoolimage[2].tags = <<"gym">> /\ ~schoolimage[2].approved
    /\ prev.op = "test"

StoreState ==
    CASE db = NoModule -> "UNCONFIGURED"
      [] db = None -> "AVAILABLE_UNINITIALIZED"
      [] OTHER -> "CONNECTED"

Reported(body) ==
    CASE body.database.status \in {"Not Available", "Database module not found"}
            -> "UNCONFIGURED"
      [] body.database.status = "Available but not initialized"
            -> "AVAILABLE_UNINITIALIZED"
      [] body.database.status \in {"Connected & Working", "Connected but Error"}
            -> "CONNECTED"
      [] OTHER -> "other"

\* C9: in each of the three store states UNCONFIGURED, AVAILABLE_UNINITIALIZED
\* and CONNECTED the service answers the diagnostic request, and the answer
\* reports the status of that state: unavailable, available-but-uninitialized
\* or connected, the last as OK exactly when the probe succeeded.
C9_ThreeStatuses ==
    pc # "start" =>
        /\ pc = "serving"
        /\ last.op = "test" =>
              /\ Reported(last.body) = StoreState
              /\ db = Handle =>
                    (last.body.database.status = "Connected & Working"
                        <=> last.probe.ok)

\* C10: the diagnostic request always gets a response; a failed probe only
\* changes the database status (connection_status stays Connected and
\* collections stays empty), a successful probe reports at most 10 collection
\* names, and database_url and database_name tell only whether the two
\* environment variables are set.
C10_DiagnosticNeverFails ==
    last.op = "test" =>
        /\ last.status = 200
        /\ last.body.backend = "Running"
        /\ last.raised # <<>>
              => /\ last.body.database.status = "Connected but Error"
                 /\ last.body.connection_status = "Connected"
                 /\ last.body.collections = <<>>
        /\ Len(last.body.collections) <= 10
        /\ db = Handle => (last.probe.ok => 
              Len(last.body.collections) = Min(last.probe.n, 10))
        /\ last.body.database_url = (IF environ.DATABASE_URL THEN "Set" ELSE "Not Set")
        /\ last.body.database_name = (IF environ.DATABASE_NAME THEN "Set" ELSE "Not Set")

C10_Witness ==
    /\ last.op = "test" /\ db = Handle /\ last.probe.ok /\ last.probe.n = 11
    /\ Len(last.body.collections) = 10
    /\ ~environ.DATABASE_URL /\ last.body.database_url = "Not Set"
    /\ prev.op = "test"

====
